---------------------------- MODULE Spec2Model ----------------------------
(***************************************************************************)
(* OTP retrieval engine of maestro/utils/sms-helper.js: the two body       *)
(* normalizers, the code extractor, the four retry controllers and the     *)
(* script's dispatch.  A JavaScript string is a sequence of one-character  *)
(* strings.                                                                *)
(***************************************************************************)
EXTENDS Integers, Sequences, FiniteSets, TLC

(***************************************************************************)
(* JavaScript values that are not strings.                                 *)
(***************************************************************************)
NULL == <<"<null>">>
UNDEFINED == <<"<undefined>">>

\* JavaScript truthiness of a string-or-null value (if (body), if (codeMatch))
Truthy(v) == v # NULL /\ v # UNDEFINED /\ v # <<>>

(***************************************************************************)
(* Character classes of the regular expressions.                           *)
(***************************************************************************)
Digits == {"0", "1", "2", "3", "4", "5", "6", "7", "8", "9"}
UpperHex == {"A", "B", "C", "D", "E", "F"}
Lowers == {"a", "b", "c", "d", "e", "f", "g", "h", "i", "j", "k", "l", "m",
           "n", "o", "p", "q", "r", "s", "t", "u", "v", "w", "x", "y", "z"}
Uppers == {"A", "B", "C", "D", "E", "F", "G", "H", "I", "J", "K", "L", "M",
           "N", "O", "P", "Q", "R", "S", "T", "U", "V", "W", "X", "Y", "Z"}
\* \s : the whitespace characters (CR, LF, TAB written by name)
WhiteSpace == {" ", "CR", "LF", "TAB", "VT", "FF", "NBSP"}
\* \w : letters, digits and underscore
WordChars == Digits \cup Lowers \cup Uppers \cup {"_"}

IsDigit(c) == c \in Digits
IsSpace(c) == c \in WhiteSpace
IsWord(c) == c \in WordChars

LowerOf == [c \in Uppers |->
    CASE c = "A" -> "a" [] c = "B" -> "b" [] c = "C" -> "c" [] c = "D" -> "d"
      [] c = "E" -> "e" [] c = "F" -> "f" [] c = "G" -> "g" [] c = "H" -> "h"
      [] c = "I" -> "i" [] c = "J" -> "j" [] c = "K" -> "k" [] c = "L" -> "l"
      [] c = "M" -> "m" [] c = "N" -> "n" [] c = "O" -> "o" [] c = "P" -> "p"
      [] c = "Q" -> "q" [] c = "R" -> "r" [] c = "S" -> "s" [] c = "T" -> "t"
      [] c = "U" -> "u" [] c = "V" -> "v" [] c = "W" -> "w" [] c = "X" -> "x"
      [] c = "Y" -> "y" [] c = "Z" -> "z"]

LowerChar(c) == IF c \in Uppers THEN LowerOf[c] ELSE c

\* String.prototype.toLowerCase
toLowerCase(s) == [i \in 1..Len(s) |-> LowerChar(s[i])]

\* the literal lit occurs in s at 1-based position i
MatchAt(s, i, lit) ==
    /\ i >= 1
    /\ i + Len(lit) - 1 <= Len(s)
    /\ \A k \in 1..Len(lit) : s[i + k - 1] = lit[k]

\* the literal lit occurs in s at position i, compared with the i flag
MatchAtI(s, i, lit) ==
    /\ i >= 1
    /\ i + Len(lit) - 1 <= Len(s)
    /\ \A k \in 1..Len(lit) : LowerChar(s[i + k - 1]) = LowerChar(lit[k])

\* String.prototype.includes
includes(s, sub) == \E i \in 1..(Len(s) + 1) : MatchAt(s, i, sub)

\* substring that leaves out the last character of the range and takes
\* the last character of the string for it
substring_SkipsOne(s, from, to) ==
    SubSeq(s, from + 1, to - 1) \o <<s[Len(s)]>>

\* substring that returns the whole string
substring_Whole(s, from, to) == s

\* String.prototype.substring(from, to) with 0-based from, exclusive to
substring(s, from, to) == SubSeq(s, from + 1, to)

\* number of consecutive characters of class cls starting at position i
RECURSIVE RunLen(_, _, _)
RunLen(s, i, cls) ==
    IF i > Len(s) \/ s[i] \notin cls THEN 0 ELSE 1 + RunLen(s, i + 1, cls)

\* \b : a word boundary lies between positions i-1 and i
Boundary(s, i) ==
    LET before == i > 1 /\ i - 1 <= Len(s) /\ IsWord(s[i - 1])
        after == i >= 1 /\ i <= Len(s) /\ IsWord(s[i])
    IN before # after

\* leftmost position of s at which the pattern P matches, or 0 (no match)
FirstPos(s, P(_)) ==
    LET hits == {i \in 1..(Len(s) + 1) : P(i)}
    IN IF hits = {} THEN 0 ELSE CHOOSE i \in hits : \A j \in hits : i <= j

(***************************************************************************)
(* extractVerificationCode: four regular expressions tried in order.       *)
(***************************************************************************)
\* Strategy1At of a pattern that never matches
Strategy1At_Never(s, i) == FALSE

\* Strategy1At without the two word boundaries
Strategy1At_NoBoundary(s, i) == RunLen(s, i, Digits) >= 6

\* /\b\d{6}\b/ matches at position i
Strategy1At(s, i) ==
    /\ Boundary(s, i)
    /\ RunLen(s, i, Digits) >= 6
    /\ Boundary(s, i + 6)

\* Strategy2Len of a pattern that never matches
Strategy2Len_Never(s, i) == 0

\* /\b\d{5,7}\b/ at position i: length of the greedy match, 0 if none
Strategy2Len(s, i) ==
    LET lens == {n \in 5..7 : /\ Boundary(s, i)
                              /\ RunLen(s, i, Digits) >= n
                              /\ Boundary(s, i + n)}
    IN IF lens = {} THEN 0 ELSE CHOOSE n \in lens : \A m \in lens : m <= n

\* \s*:?\s* starting at position i: the position of the first character after it
AfterSeparator(s, i) ==
    LET j == i + RunLen(s, i, WhiteSpace)
        k == IF j <= Len(s) /\ s[j] = ":" THEN j + 1 ELSE j
    IN k + RunLen(s, k, WhiteSpace)

KwVerification == <<"v", "e", "r", "i", "f", "i", "c", "a", "t", "i", "o", "n">>
KwCode == <<"c", "o", "d", "e">>

\* (?:verification\s+code|code) with the i flag at position i: the set of
\* positions right after the keyword (one per alternative that matches)
KeywordEnds(s, i) ==
    LET ws == RunLen(s, i + 12, WhiteSpace)
        alt1 == IF /\ MatchAtI(s, i, KwVerification)
                   /\ ws >= 1
                   /\ MatchAtI(s, i + 12 + ws, KwCode)
                THEN {i + 12 + ws + 4} ELSE {}
        alt2 == IF MatchAtI(s, i, KwCode) THEN {i + 4} ELSE {}
    IN alt1 \cup alt2

\* /(?:verification\s+code|code)\s*:?\s*(\d{4,8})/i at position i: the
\* position of the captured group, 0 if the pattern does not match at i
Strategy3Group(s, i) ==
    LET starts == {AfterSeparator(s, e) : e \in KeywordEnds(s, i)}
        good == {g \in starts : RunLen(s, g, Digits) >= 4}
    IN IF good = {} THEN 0 ELSE CHOOSE g \in good : TRUE

\* Strategy4At that is content with a single digit
Strategy4At_AnyDigit(s, i) == RunLen(s, i, Digits) >= 1

\* /\d{4,8}/ matches at position i
Strategy4At(s, i) == RunLen(s, i, Digits) >= 4

\* Min that always gives its second argument
Min_Second(a, b) == b

Min(a, b) == IF a < b THEN a ELSE b

\* extractVerificationCode that takes the empty text for a code
extractVerificationCode_EmptyIsCode(cleanedBody) ==
    IF ~Truthy(cleanedBody) THEN <<"0", "0", "0", "0">> ELSE NULL

\* the code extractor; NULL stands for JavaScript's null
extractVerificationCode(cleanedBody) ==
    IF ~Truthy(cleanedBody) THEN NULL
    ELSE
    LET s == cleanedBody
        p1 == FirstPos(s, LAMBDA i : Strategy1At(s, i))
        p2 == FirstPos(s, LAMBDA i : Strategy2Len(s, i) > 0)
        p3 == FirstPos(s, LAMBDA i : Strategy3Group(s, i) > 0)
        p4 == FirstPos(s, LAMBDA i : Strategy4At(s, i))
    IN IF p1 > 0 THEN SubSeq(s, p1, p1 + 5)
       ELSE IF p2 > 0 THEN
            LET code == SubSeq(s, p2, p2 + Strategy2Len(s, p2) - 1)
            IN IF Len(code) = 6 THEN code
               ELSE IF Len(code) > 6 THEN substring(code, 0, 6)
               ELSE code
       ELSE IF p3 > 0 THEN
            LET g == Strategy3Group(s, p3)
            IN SubSeq(s, g, g + Min(8, RunLen(s, g, Digits)) - 1)
       ELSE IF p4 > 0 THEN
            SubSeq(s, p4, p4 + Min(8, RunLen(s, p4, Digits)) - 1)
       ELSE NULL

(***************************************************************************)
(* String.prototype.replace with a g-flag pattern: a left-to-right scan    *)
(* over non-overlapping matches.                                           *)
(***************************************************************************)
\* replace(/lit/g, rep) for a literal pattern
RECURSIVE ReplaceLit(_, _, _, _)
ReplaceLit(s, i, lit, rep) ==
    IF i > Len(s) THEN <<>>
    ELSE IF MatchAt(s, i, lit) THEN rep \o ReplaceLit(s, i + Len(lit), lit, rep)
    ELSE <<s[i]>> \o ReplaceLit(s, i + 1, lit, rep)

\* replace(/=\s/g, '')
RECURSIVE RemoveSoftBreaks(_, _)
RemoveSoftBreaks(s, i) ==
    IF i > Len(s) THEN <<>>
    ELSE IF s[i] = "=" /\ i + 1 <= Len(s) /\ IsSpace(s[i + 1])
         THEN RemoveSoftBreaks(s, i + 2)
    ELSE <<s[i]>> \o RemoveSoftBreaks(s, i + 1)

\* replace(/\s+/g, ' ')
RECURSIVE CollapseSpaces(_, _)
CollapseSpaces(s, i) ==
    IF i > Len(s) THEN <<>>
    ELSE IF IsSpace(s[i])
         THEN <<" ">> \o CollapseSpaces(s, i + RunLen(s, i, WhiteSpace))
    ELSE <<s[i]>> \o CollapseSpaces(s, i + 1)

\* String.prototype.trim
RECURSIVE TrimLeft(_)
TrimLeft(s) == IF s # <<>> /\ IsSpace(Head(s)) THEN TrimLeft(Tail(s)) ELSE s

RECURSIVE TrimRight(_)
TrimRight(s) ==
    IF s # <<>> /\ IsSpace(s[Len(s)]) THEN TrimRight(SubSeq(s, 1, Len(s) - 1))
    ELSE s

\* trim that leaves the end of the string alone
trim_LeftOnly(s) == TrimLeft(s)

trim(s) == TrimRight(TrimLeft(s))

CRLF == <<"CR", "LF">>

\* .replace(/\r\n/g, ' ').replace(/\r/g, ' ').replace(/\n/g, ' ')
RemoveLineBreaks(s) ==
    LET a == ReplaceLit(s, 1, CRLF, <<" ">>)
        b == ReplaceLit(a, 1, <<"CR">>, <<" ">>)
    IN ReplaceLit(b, 1, <<"LF">>, <<" ">>)

\* the SMS normalizer
cleanSMSBody(body) ==
    IF ~Truthy(body) THEN <<>>
    ELSE LET step1 == RemoveLineBreaks(body)
             step2 == RemoveSoftBreaks(step1, 1)
         IN trim(CollapseSpaces(step2, 1))

(***************************************************************************)
(* cleanEmailBody, step 1: quoted-printable decoding.                      *)
(***************************************************************************)
HexDigits == Digits \cup UpperHex

HexVal(c) ==
    CASE c = "0" -> 0 [] c = "1" -> 1 [] c = "2" -> 2 [] c = "3" -> 3
      [] c = "4" -> 4 [] c = "5" -> 5 [] c = "6" -> 6 [] c = "7" -> 7
      [] c = "8" -> 8 [] c = "9" -> 9 [] c = "A" -> 10 [] c = "B" -> 11
      [] c = "C" -> 12 [] c = "D" -> 13 [] c = "E" -> 14 [] c = "F" -> 15

DigitSeq == <<"0", "1", "2", "3", "4", "5", "6", "7", "8", "9">>
UpperSeq == <<"A", "B", "C", "D", "E", "F", "G", "H", "I", "J", "K", "L", "M",
              "N", "O", "P", "Q", "R", "S", "T", "U", "V", "W", "X", "Y", "Z">>
LowerSeq == <<"a", "b", "c", "d", "e", "f", "g", "h", "i", "j", "k", "l", "m",
              "n", "o", "p", "q", "r", "s", "t", "u", "v", "w", "x", "y", "z">>

\* String.fromCharCode(n) for 0 <= n <= 255; a character the model has no
\* literal for is written "#n" (a control character when n < 32 or n = 127)
fromCharCode(n) ==
    CASE n = 9 -> "TAB" [] n = 10 -> "LF" [] n = 13 -> "CR" [] n = 32 -> " "
      [] n = 11 -> "VT" [] n = 12 -> "FF" [] n = 160 -> "NBSP"
      [] n = 33 -> "!" [] n = 34 -> "QUOT" [] n = 35 -> "#" [] n = 38 -> "&"
      [] n = 39 -> "'" [] n = 45 -> "-" [] n = 46 -> "." [] n = 47 -> "/"
      [] n = 58 -> ":" [] n = 59 -> ";" [] n = 60 -> "<" [] n = 61 -> "="
      [] n = 62 -> ">" [] n = 64 -> "@" [] n = 95 -> "_"
      [] n \in 48..57 -> DigitSeq[n - 47]
      [] n \in 65..90 -> UpperSeq[n - 64]
      [] n \in 97..122 -> LowerSeq[n - 96]
      [] OTHER -> "#" \o ToString(n)

\* replace(/=([0-9A-F]{2})/g, (match, hex) => String.fromCharCode(parseInt(hex, 16)))
RECURSIVE DecodeHexEscapes(_, _)
DecodeHexEscapes(s, i) ==
    IF i > Len(s) THEN <<>>
    ELSE IF /\ s[i] = "="
            /\ i + 2 <= Len(s)
            /\ s[i + 1] \in HexDigits
            /\ s[i + 2] \in HexDigits
         THEN <<fromCharCode(16 * HexVal(s[i + 1]) + HexVal(s[i + 2]))>>
              \o DecodeHexEscapes(s, i + 3)
    ELSE <<s[i]>> \o DecodeHexEscapes(s, i + 1)

DecodeQuotedPrintable(s) ==
    LET a == ReplaceLit(s, 1, <<"=", "CR", "LF">>, <<>>)
        b == ReplaceLit(a, 1, <<"=", "3", "D">>, <<"=">>)
    IN DecodeHexEscapes(b, 1)

(***************************************************************************)
(* cleanEmailBody, step 2: markup removal and entity decoding.             *)
(***************************************************************************)
\* leftmost position >= i of the literal lit compared with the i flag, or 0
FindFromI(s, i, lit) ==
    LET hits == {j \in i..(Len(s) + 1) : MatchAtI(s, j, lit)}
    IN IF hits = {} THEN 0 ELSE CHOOSE j \in hits : \A k \in hits : j <= k

\* leftmost position >= i of the literal lit, or 0
FindFrom(s, i, lit) ==
    LET hits == {j \in i..(Len(s) + 1) : MatchAt(s, j, lit)}
    IN IF hits = {} THEN 0 ELSE CHOOSE j \in hits : \A k \in hits : j <= k

LitDoctype == <<"<", "!", "d", "o", "c", "t", "y", "p", "e">>
LitCommentOpen == <<"<", "!", "-", "-">>
LitCommentClose == <<"-", "-", ">">>
LitScript == <<"s", "c", "r", "i", "p", "t">>
LitStyle == <<"s", "t", "y", "l", "e">>

\* replace(/<!doctype[^>]*>/gi, '')
RECURSIVE RemoveDoctype(_, _)
RemoveDoctype(s, i) ==
    IF i > Len(s) THEN <<>>
    ELSE LET close == FindFrom(s, i + 9, <<">">>)
         IN IF MatchAtI(s, i, LitDoctype) /\ close > 0
            THEN RemoveDoctype(s, close + 1)
            ELSE <<s[i]>> \o RemoveDoctype(s, i + 1)

\* replace(/<!--[\s\S]*?-->/g, '')
RECURSIVE RemoveComments(_, _)
RemoveComments(s, i) ==
    IF i > Len(s) THEN <<>>
    ELSE LET close == FindFrom(s, i + 4, LitCommentClose)
         IN IF MatchAt(s, i, LitCommentOpen) /\ close > 0
            THEN RemoveComments(s, close + 3)
            ELSE <<s[i]>> \o RemoveComments(s, i + 1)

\* /<(script|style)[^>]*>[\s\S]*?<\/\1>/gi at position i with tag name: the
\* position right after the match, 0 if the pattern does not match
BlockEnd(s, i, name) ==
    LET open == <<"<">> \o name
        gt == FindFrom(s, i + Len(open), <<">">>)
        closing == <<"<", "/">> \o name \o <<">">>
        close == IF gt > 0 THEN FindFromI(s, gt + 1, closing) ELSE 0
    IN IF MatchAtI(s, i, open) /\ gt > 0 /\ close > 0
       THEN close + Len(closing) ELSE 0

\* replace(/<(script|style)[^>]*>[\s\S]*?<\/\1>/gi, '')
RECURSIVE RemoveBlocks(_, _)
RemoveBlocks(s, i) ==
    IF i > Len(s) THEN <<>>
    ELSE LET e1 == BlockEnd(s, i, LitScript)
             e2 == BlockEnd(s, i, LitStyle)
         IN IF e1 > 0 THEN RemoveBlocks(s, e1)
            ELSE IF e2 > 0 THEN RemoveBlocks(s, e2)
            ELSE <<s[i]>> \o RemoveBlocks(s, i + 1)

\* replace(/<[^>]*>/g, ' ')
RECURSIVE RemoveTags(_, _)
RemoveTags(s, i) ==
    IF i > Len(s) THEN <<>>
    ELSE LET close == FindFrom(s, i + 1, <<">">>)
         IN IF s[i] = "<" /\ close > 0
            THEN <<" ">> \o RemoveTags(s, close + 1)
            ELSE <<s[i]>> \o RemoveTags(s, i + 1)

\* the six entity replacements, in the order of the source
DecodeEntities(s) ==
    LET a == ReplaceLit(s, 1, <<"&", "n", "b", "s", "p", ";">>, <<" ">>)
        b == ReplaceLit(a, 1, <<"&", "l", "t", ";">>, <<"<">>)
        c == ReplaceLit(b, 1, <<"&", "g", "t", ";">>, <<">">>)
        d == ReplaceLit(c, 1, <<"&", "a", "m", "p", ";">>, <<"&">>)
        e == ReplaceLit(d, 1, <<"&", "q", "u", "o", "t", ";">>, <<"QUOT">>)
    IN ReplaceLit(e, 1, <<"&", "#", "3", "9", ";">>, <<"'">>)

StripMarkup(s) ==
    LET a == RemoveDoctype(s, 1)
        b == RemoveComments(a, 1)
        c == RemoveBlocks(b, 1)
        d == RemoveTags(c, 1)
    IN DecodeEntities(d)

\* the email normalizer
cleanEmailBody(body) ==
    IF ~Truthy(body) THEN <<>>
    ELSE LET step1 == DecodeQuotedPrintable(body)
             step2 == StripMarkup(step1)
             step3 == RemoveLineBreaks(step2)
         IN trim(CollapseSpaces(step3, 1))

(***************************************************************************)
(* Inbox messages.  has is the set of properties the JSON record carries   *)
(* (Content, Headers, Subject, From, To, Body); a header is a list of      *)
(* strings and To a list of {Mailbox, Domain} records.                     *)
(***************************************************************************)
Str_SMS == <<"S", "M", "S">>
Str_verification == <<"v", "e", "r", "i", "f", "i", "c", "a", "t", "i", "o", "n">>
Str_support == <<"s", "u", "p", "p", "o", "r", "t", "@", "f", "a", "s", "t", "e",
                 "r", "p", "a", "y", ".", "c", "o", "m">>

\* parts of an Error message: literal text, an interpolated string, a number
Lit(w) == [k |-> "lit", v |-> w]
StrPart(s) == [k |-> "str", v |-> s]
Num(n) == [k |-> "num", v |-> n]

TypeError == <<Lit("TypeError")>>

\* message.Content && message.Content.Headers && message.Content.Headers.Subject
HasSubject(m) == {"Content", "Headers", "Subject"} \subseteq m.has

\* the condition guarding normalization in getLatestVerificationCode;
\* reading Subject[0] of an empty list gives undefined, and undefined.includes
\* throws
SmsThrows(m) == HasSubject(m) /\ m.Subject = <<>>

\* SmsMatches without the "SMS" test
SmsMatches_AnySubject(m, phone) ==
    /\ HasSubject(m)
    /\ m.Subject # <<>>
    /\ Truthy(phone)
    /\ includes(m.Subject[1], phone)

SmsMatches(m, phone) ==
    /\ HasSubject(m)
    /\ m.Subject # <<>>
    /\ includes(m.Subject[1], Str_SMS)
    /\ Truthy(phone)
    /\ includes(m.Subject[1], phone)

\* SmsFallbackMatches that passes over a message with recipients
SmsFallbackMatches_NoRecipients(m) ==
    /\ HasSubject(m)
    /\ m.Subject # <<>>
    /\ includes(m.Subject[1], Str_SMS)
    /\ "To" \notin m.has

\* the condition guarding normalization in getLatestVerificationCodeFallback
SmsFallbackMatches(m) ==
    /\ HasSubject(m)
    /\ m.Subject # <<>>
    /\ includes(m.Subject[1], Str_SMS)

\* message.Content && message.Content.Headers, then fromHeaders &&
\* subjectHeaders (&& toArray when withTo)
EmailHeadersPresent(m, withTo) ==
    /\ {"Content", "Headers", "From", "Subject"} \subseteq m.has
    /\ withTo => "To" \in m.has

\* fromEmail.includes(...) && subject.toLowerCase().includes(...) throws when
\* From is an empty list, or the sender matches and Subject is an empty list
EmailThrows(m, withTo) ==
    /\ EmailHeadersPresent(m, withTo)
    /\ \/ m.From = <<>>
       \/ includes(m.From[1], Str_support) /\ m.Subject = <<>>

EmailSenderMatches(m, withTo) ==
    /\ EmailHeadersPresent(m, withTo)
    /\ m.From # <<>>
    /\ includes(m.From[1], Str_support)
    /\ m.Subject # <<>>
    /\ includes(toLowerCase(m.Subject[1]), Str_verification)

\* isForTargetEmail with a substring test in place of ===
isForTargetEmail_Substring(toArray, address) ==
    \E i \in 1..Len(toArray) :
        /\ Truthy(toArray[i].Mailbox)
        /\ Truthy(toArray[i].Domain)
        /\ includes(toArray[i].Mailbox \o <<"@">> \o toArray[i].Domain, address)

\* toArray.some(toObj => toObj.Mailbox && toObj.Domain &&
\*                       (toObj.Mailbox + '@' + toObj.Domain) === emailAddress)
isForTargetEmail(toArray, address) ==
    \E i \in 1..Len(toArray) :
        /\ Truthy(toArray[i].Mailbox)
        /\ Truthy(toArray[i].Domain)
        /\ toArray[i].Mailbox \o <<"@">> \o toArray[i].Domain = address

EmailMatches(m, address) ==
    /\ EmailSenderMatches(m, TRUE)
    /\ isForTargetEmail(m.To, address)

EmailFallbackMatches(m) == EmailSenderMatches(m, FALSE)

Functions == {"sms", "smsFallback", "email", "emailFallback"}
SmsFunctions == {"sms", "smsFallback"}

\* the message raises a TypeError while its headers are inspected
Throws(f, m) ==
    CASE f \in SmsFunctions -> SmsThrows(m)
      [] f = "email" -> EmailThrows(m, TRUE)
      [] f = "emailFallback" -> EmailThrows(m, FALSE)

\* the selector predicate of controller f with identifier id
Matches(f, id, m) ==
    CASE f = "sms" -> SmsMatches(m, id)
      [] f = "smsFallback" -> SmsFallbackMatches(m)
      [] f = "email" -> EmailMatches(m, id)
      [] f = "emailFallback" -> EmailFallbackMatches(m)

\* message.Content.Body
BodyOf(m) == IF "Body" \in m.has THEN m.Body ELSE UNDEFINED

\* Clean that hands the raw body on
Clean_Raw(f, body) == IF Truthy(body) THEN body ELSE <<>>

\* the normalizer controller f applies
Clean(f, body) ==
    IF f \in SmsFunctions THEN cleanSMSBody(body) ELSE cleanEmailBody(body)

\* the code controller f extracts from message m
CodeOf(f, m) == extractVerificationCode(Clean(f, BodyOf(m)))

(***************************************************************************)
(* Bounds and sample data of the model.                                    *)
(***************************************************************************)
\* largest maxAttempts of a direct call
MaxAttemptsBound == 3
\* longest inbox list
MaxMessages == 2

\* the script's retry parameters
MAX_ATTEMPTS == 10
RETRY_DELAY == 3000

\* amounts by which Date.now() advances between two reads
TickSizes == {1500, 3000}
\* HTTP statuses of a failed fetch
BadStatuses == {404, 500}

Phone12 == <<"1", "2">>
AddrAX == <<"a", "@", "x">>

Msg(has, subject, from, to, body) ==
    [has |-> has, Subject |-> subject, From |-> from, To |-> to, Body |-> body]

SmsProps == {"Content", "Headers", "Subject", "Body"}
EmailProps == {"Content", "Headers", "Subject", "From", "To", "Body"}

Rcpt(mailbox, domain) == [Mailbox |-> mailbox, Domain |-> domain]

\* "Your code is: 482913."
BodyCode == <<"Y", "o", "u", "r", " ", "c", "o", "d", "e", " ", "i", "s", ":",
              " ", "4", "8", "2", "9", "1", "3", ".">>
\* "Hi=\r\nthere 123"
BodyNoCode == <<"H", "i", "=", "CR", "LF", "t", "h", "e", "r", "e", " ",
                "1", "2", "3">>
\* "code 7721"
BodyShort == <<"c", "o", "d", "e", " ", "7", "7", "2", "1">>
\* "<b>Code=3D 551234=\r\n</b>"
BodyHtml == <<"<", "b", ">", "C", "o", "d", "e", "=", "3", "D", " ", "5", "5",
              "1", "2", "3", "4", "=", "CR", "LF", "<", "/", "b", ">">>
\* "<p>66=\r\n0011</p>"
BodyHtml2 == <<"<", "p", ">", "6", "6", "=", "CR", "LF", "0", "0", "1", "1",
               "<", "/", "p", ">">>

SubjSmsTo12 == <<"S", "M", "S", " ", "t", "o", " ", "1", "2">>
SubjSmsTo123 == <<"S", "M", "S", " ", "t", "o", " ", "1", "2", "3">>
SubjSmsLower == <<"s", "m", "s", " ", "t", "o", " ", "1", "2">>
SubjVerification == <<"V", "e", "r", "i", "f", "i", "c", "a", "t", "i", "o", "n">>
SubjWelcome == <<"W", "e", "l", "c", "o", "m", "e">>
FromSupport == <<"<">> \o Str_support \o <<">">>
FromOther == <<"x", "@", "y">>

SubjSmsTo9 == <<"S", "M", "S", " ", "t", "o", " ", "9">>

\* a message without Content
MsgBare == Msg({}, <<>>, <<>>, <<>>, <<>>)
MsgSmsGood == Msg(SmsProps, <<SubjSmsTo12>>, <<>>, <<>>, BodyCode)
MsgEmailGood ==
    Msg(EmailProps, <<SubjVerification>>, <<FromSupport>>,
        <<Rcpt(<<"a">>, <<"x">>)>>, BodyHtml)

\* messages an inbox polled for SMS holds
SmsSamples == {
    MsgSmsGood,
    Msg(SmsProps, <<SubjSmsTo12>>, <<>>, <<>>, BodyNoCode),
    Msg(SmsProps, <<SubjSmsTo123>>, <<>>, <<>>, BodyShort),
    Msg(SmsProps \cup {"To"}, <<SubjSmsTo9>>, <<>>,
        <<Rcpt(<<"a">>, <<"x">>)>>, BodyCode),
    Msg(SmsProps, <<SubjSmsLower>>, <<>>, <<>>, BodyCode),
    Msg(SmsProps, <<SubjSmsTo12>>, <<>>, <<>>, <<>>),
    Msg(SmsProps, <<>>, <<>>, <<>>, BodyCode),
    MsgBare }

\* messages an inbox polled for email holds
EmailSamples == {
    MsgEmailGood,
    Msg(EmailProps, <<SubjVerification>>, <<FromSupport>>,
        <<Rcpt(<<"A">>, <<"x">>), Rcpt(<<"a">>, <<"x", "y">>)>>, BodyHtml2),
    Msg(EmailProps \ {"Body"}, <<SubjVerification>>, <<FromSupport>>,
        <<Rcpt(<<"a">>, <<"x">>)>>, <<>>),
    Msg(EmailProps, <<SubjWelcome>>, <<FromSupport>>,
        <<Rcpt(<<"a">>, <<"x">>)>>, BodyHtml),
    Msg(EmailProps, <<>>, <<FromOther>>, <<Rcpt(<<"a">>, <<"x">>)>>, BodyHtml),
    Msg(EmailProps, <<SubjVerification>>, <<>>,
        <<Rcpt(<<"a">>, <<"x">>)>>, BodyHtml),
    MsgBare }

SampleMessages == SmsSamples \cup EmailSamples

RECURSIVE ListsUpTo(_, _)
ListsUpTo(samples, n) ==
    IF n = 0 THEN {<<>>}
    ELSE LET shorter == ListsUpTo(samples, n - 1)
         IN shorter \cup {Append(l, m) : l \in shorter, m \in samples}

SmsInboxes == ListsUpTo(SmsSamples, MaxMessages)
EmailInboxes == ListsUpTo(EmailSamples, MaxMessages)

\* the item lists the inbox may answer controller f with
Inboxes(f) == IF f \in SmsFunctions THEN SmsInboxes ELSE EmailInboxes

\* values of the environment variables; UNDEFINED is a variable that is not set
MessageTypes == {UNDEFINED, <<"s", "m", "s">>, <<"e", "m", "a", "i", "l">>,
                 <<"E", "m", "a", "i", "l">>, <<"p", "u", "s", "h">>}
PhoneNumbers == {UNDEFINED, NULL, <<>>, Phone12}
EmailAddresses == {UNDEFINED, <<>>, AddrAX}

Str_email == <<"e", "m", "a", "i", "l">>
Str_sms == <<"s", "m", "s">>

(***************************************************************************)
(* State of one script run or one direct call of a controller.             *)
(***************************************************************************)
VARIABLES
    pc,            \* "start", "loop" (at the for-loop test), "wait", "done"
    entry,         \* "script": the main part; "call", "extractor", "normalizer":
                   \* a direct call of a controller, the extractor, a normalizer;
                   \* "generator": the script generate_phone.js
    env,           \* MESSAGE_TYPE, PHONE_NUMBER, EMAIL_ADDRESS of the flow
    messageType,   \* the script's messageType
    phoneNumber,   \* the script's phoneNumber / the controller's argument
    emailAddress,  \* the script's emailAddress / the controller's argument
    fn,            \* the controller that runs
    maxAttempts,   \* argument maxAttempts
    retryDelay,    \* argument retryDelay
    attempt,       \* the loop counter
    elapsed,       \* Date.now() - startTime of the latest busy-wait
    response,      \* what the last http.get produced
    scanned,       \* how the last loop over data.items ended, "" if none ran
    fetchFailed,   \* some http.get threw or answered with a bad status
    items,         \* data.items while the iteration that fetched it runs
    examined,      \* indices of items normalized and extracted from, last attempt
    fetches,       \* number of http.get calls issued
    waits,         \* number of busy-waits completed
    result,        \* the returned code, NULL while none
    error,         \* the Error thrown to the caller, <<>> while none
    output_otp,    \* output.otp, UNDEFINED while unwritten
    text,          \* the argument of a direct call of extractVerificationCode
    extracted,     \* what that call returned, UNDEFINED before it returns
    rawBody,       \* the argument of a direct call of a normalizer
    cleaned,       \* what that call returned, UNDEFINED before it returns
    recleaned,     \* what the normalizer returned for cleaned
    firstDigit,    \* generateRandomPhone's firstDigit, 0 before it is drawn
    restDigits,    \* the elements of restDigits produced so far
    generated,     \* the script's phoneNumber: what generateRandomPhone returned
    output_generatedPhone  \* output.generatedPhone, UNDEFINED while unwritten

vars == <<pc, entry, env, messageType, phoneNumber, emailAddress, fn,
          maxAttempts, retryDelay, attempt, elapsed, response, scanned,
          fetchFailed, items, examined, fetches, waits, result, error,
          output_otp, text, extracted, rawBody, cleaned, recleaned,
          firstDigit, restDigits, generated, output_generatedPhone>>

\* the identifier controller f filters by (none in the fallback controllers)
IdentifierOf(f, phone, email) ==
    CASE f = "sms" -> phone
      [] f = "email" -> email
      [] OTHER -> NULL

identifier == IdentifierOf(fn, phoneNumber, emailAddress)

\* ExhaustedError that reports at least one attempt
ExhaustedError_AtLeastOne(f, id, n) ==
    <<Lit("No verification code found"), Lit(IF f \in SmsFunctions THEN "SMS" ELSE "email"),
      StrPart(id), Lit("fallback mode"), Lit("after"),
      Num(IF n < 1 THEN 1 ELSE n), Lit("attempts")>>

\* the message of the Error thrown after the loop
ExhaustedError(f, id, n) ==
    CASE f = "sms" ->
           <<Lit("No verification code found in"), Lit("SMS"),
             Lit("messages for phone number:"), StrPart(id), Lit("after"),
             Num(n), Lit("attempts")>>
      [] f = "email" ->
           <<Lit("No verification code found in"), Lit("email"),
             Lit("messages for email address:"), StrPart(id), Lit("after"),
             Num(n), Lit("attempts")>>
      [] f = "emailFallback" ->
           <<Lit("No verification code found in any recent FasterPay verification"),
             Lit("emails"), Lit("after"), Num(n), Lit("attempts"),
             Lit("("), Lit("email"), Lit("fallback mode"), Lit(")")>>
      [] f = "smsFallback" ->
           <<Lit("No verification code found in any recent"), Lit("SMS"),
             Lit("messages"), Lit("after"), Num(n), Lit("attempts"),
             Lit("("), Lit("fallback mode"), Lit(")")>>

\* the message of the Error thrown when response.ok is false
FetchError(f, status) ==
    IF f \in SmsFunctions
    THEN <<Lit("Failed to fetch"), Lit("SMS"), Lit("messages:"), Num(status)>>
    ELSE <<Lit("Failed to fetch"), Lit("email"), Lit("messages:"), Num(status)>>

\* the error http.get itself throws on a transport fault
TransportError == <<Lit("transport fault")>>

\* x || fallback for an environment variable: a ReferenceError on an unset
\* variable is caught and gives the fallback as well
OrDefault(x, fallback) == IF Truthy(x) THEN x ELSE fallback

\* no normalizer has been called directly
Unnormalized ==
    /\ rawBody = <<>>
    /\ cleaned = UNDEFINED
    /\ recleaned = UNDEFINED

\* what every run starts with
Fresh ==
    /\ pc = "start"
    /\ firstDigit = 0
    /\ restDigits = <<>>
    /\ generated = UNDEFINED
    /\ output_generatedPhone = UNDEFINED
    /\ messageType = Str_sms
    /\ attempt = 0
    /\ elapsed = 0
    /\ response = "none"
    /\ scanned = ""
    /\ fetchFailed = FALSE
    /\ items = <<>>
    /\ examined = <<>>
    /\ fetches = 0
    /\ waits = 0
    /\ result = NULL
    /\ error = <<>>
    /\ output_otp = UNDEFINED

\* a flow is about to run the script in some environment
ScriptInit ==
    /\ entry = "script"
    /\ env \in [MESSAGE_TYPE : MessageTypes, PHONE_NUMBER : PhoneNumbers,
                EMAIL_ADDRESS : EmailAddresses]
    /\ fn = "sms"
    /\ phoneNumber = NULL
    /\ emailAddress = NULL
    /\ maxAttempts = MAX_ATTEMPTS
    /\ retryDelay = RETRY_DELAY
    /\ text = <<>>
    /\ extracted = UNDEFINED
    /\ Unnormalized
    /\ Fresh

\* one of the four controllers is about to be called with its arguments
Init ==
    /\ entry = "call"
    /\ env = [MESSAGE_TYPE |-> UNDEFINED, PHONE_NUMBER |-> UNDEFINED,
              EMAIL_ADDRESS |-> UNDEFINED]
    /\ fn \in Functions
    /\ phoneNumber = IF fn = "sms" THEN Phone12 ELSE NULL
    /\ emailAddress = IF fn = "email" THEN AddrAX ELSE NULL
    /\ maxAttempts \in (-1)..MaxAttemptsBound
    /\ retryDelay \in {0, RETRY_DELAY}
    /\ text = <<>>
    /\ extracted = UNDEFINED
    /\ Unnormalized
    /\ Fresh

(***************************************************************************)
(* The inner loop over data.items.                                         *)
(***************************************************************************)
\* the identifiers a controller is given in this model
Identifiers == {NULL, Phone12, AddrAX}

\* what the loop body does with message m: throw, or match and extract
Verdict(f, id, m) ==
    IF Throws(f, m) THEN [kind |-> "throw", code |-> NULL]
    ELSE IF Matches(f, id, m) THEN [kind |-> "match", code |-> CodeOf(f, m)]
    ELSE [kind |-> "skip", code |-> NULL]

\* Verdict, tabulated for every controller, identifier and sample message
\* (chosen from a singleton set, so that the whole table is built once)
VerdictTable ==
    CHOOSE table \in {[k \in Functions \X Identifiers \X SampleMessages |->
                           Verdict(k[1], k[2], k[3])]} : table = table

\* the verdicts of controller f, given id, on the messages of a fetched list
VerdictsOf(f, id, list) ==
    [j \in 1..Len(list) |-> VerdictTable[<<f, id, list[j]>>]]

\* Scan that goes through the list from its end
RECURSIVE Scan_LatestFirst(_, _, _)
Scan_LatestFirst(verdicts, i, seen) ==
    IF i > Len(verdicts)
    THEN [kind |-> "none", code |-> NULL, examined |-> seen]
    ELSE LET k == Len(verdicts) + 1 - i
             v == verdicts[k]
         IN IF v.kind = "throw"
            THEN [kind |-> "throw", code |-> NULL, examined |-> seen]
            ELSE IF v.kind = "match"
            THEN IF Truthy(v.code)
                 THEN [kind |-> "return", code |-> v.code,
                       examined |-> Append(seen, k)]
                 ELSE Scan_LatestFirst(verdicts, i + 1, Append(seen, k))
            ELSE Scan_LatestFirst(verdicts, i + 1, seen)

\* Scan that gives up after the first matching message
RECURSIVE Scan_FirstMatchOnly(_, _, _)
Scan_FirstMatchOnly(verdicts, i, seen) ==
    IF i > Len(verdicts)
    THEN [kind |-> "none", code |-> NULL, examined |-> seen]
    ELSE LET v == verdicts[i]
         IN IF v.kind = "throw"
            THEN [kind |-> "throw", code |-> NULL, examined |-> seen]
            ELSE IF v.kind = "match"
            THEN IF Truthy(v.code)
                 THEN [kind |-> "return", code |-> v.code,
                       examined |-> Append(seen, i)]
                 ELSE [kind |-> "none", code |-> NULL,
                       examined |-> Append(seen, i)]
            ELSE Scan_FirstMatchOnly(verdicts, i + 1, seen)

\* the for loop over data.items from index i on, verdicts[i] being what the
\* loop body does with the i-th message; seen lists the indices of the
\* messages normalized and extracted from so far
RECURSIVE Scan(_, _, _)
Scan(verdicts, i, seen) ==
    IF i > Len(verdicts)
    THEN [kind |-> "none", code |-> NULL, examined |-> seen]
    ELSE LET v == verdicts[i]
         IN IF v.kind = "throw"
            THEN [kind |-> "throw", code |-> NULL, examined |-> seen]
            ELSE IF v.kind = "match"
            THEN IF Truthy(v.code)
                 THEN [kind |-> "return", code |-> v.code,
                       examined |-> Append(seen, i)]
                 ELSE Scan(verdicts, i + 1, Append(seen, i))
            ELSE Scan(verdicts, i + 1, seen)

(***************************************************************************)
(* The script's configuration and dispatch.                                *)
(***************************************************************************)
\* Route without the fallback branches
Route_NoFallback(mt, phone, email) ==
    IF toLowerCase(mt) = Str_email THEN "email" ELSE "sms"

\* the if / else at the end of the script: the controller to run
Route(mt, phone, email) ==
    IF toLowerCase(mt) = Str_email
    THEN IF ~Truthy(email) THEN "emailFallback" ELSE "email"
    ELSE IF ~Truthy(phone) THEN "smsFallback" ELSE "sms"

\* what a call never changes
config == <<entry, env, maxAttempts, retryDelay>>
\* what only a direct call of the extractor touches
extractor == <<text, extracted>>
\* what only a direct call of a normalizer touches
normalizer == <<rawBody, cleaned, recleaned>>
\* what only generate_phone.js touches
generator == <<firstDigit, restDigits, generated, output_generatedPhone>>
args == <<messageType, phoneNumber, emailAddress, fn>>

\* the script reads its environment and enters the routed controller
Dispatch ==
    /\ pc = "start"
    /\ entry = "script"
    /\ messageType' = OrDefault(env.MESSAGE_TYPE, Str_sms)
    /\ phoneNumber' = OrDefault(env.PHONE_NUMBER, NULL)
    /\ emailAddress' = OrDefault(env.EMAIL_ADDRESS, NULL)
    /\ fn' = Route(messageType', phoneNumber', emailAddress')
    /\ attempt' = 1
    /\ pc' = "loop"
    /\ UNCHANGED <<extractor, normalizer, generator, config, elapsed, response, scanned, fetchFailed, items,
                   examined, fetches, waits, result, error, output_otp>>

\* a controller is called directly: for (let attempt = 1; ...)
Call ==
    /\ pc = "start"
    /\ entry = "call"
    /\ attempt' = 1
    /\ pc' = "loop"
    /\ UNCHANGED <<extractor, normalizer, generator, config, args, elapsed, response, scanned, fetchFailed,
                   items, examined, fetches, waits, result, error, output_otp>>

(***************************************************************************)
(* One iteration of the retry loop.                                        *)
(***************************************************************************)
\* LoopContinues that lets one more iteration run
LoopContinues_OneMore(att, max) == att <= max + 1

\* the loop test attempt <= maxAttempts
LoopContinues(att, max) == att <= max

\* RethrowsAt that gives up at the first failure
RethrowsAt_First(att, max) == att = 1

\* RethrowsAt that swallows every error
RethrowsAt_Never(att, max) == FALSE

\* catch block: if (attempt === maxAttempts) throw error
RethrowsAt(att, max) == att = max

\* WaitsAfter that waits after the last attempt as well
WaitsAfter_Always(att, max) == TRUE

\* if (attempt < maxAttempts) { busy-wait }
WaitsAfter(att, max) == att < max

\* while (Date.now() - startTime < retryDelay) keeps spinning
StillWaiting(spent, delay) == spent < delay

\* startTime = Date.now() and the busy-wait begins; data stays in scope
StartWait(list) ==
    /\ pc' = "wait"
    /\ elapsed' = 0
    /\ items' = list
    /\ UNCHANGED attempt

\* the iteration ends without a wait: attempt++ and the loop is left
NextIteration ==
    /\ pc' = "loop"
    /\ attempt' = attempt + 1
    /\ items' = <<>>
    /\ UNCHANGED elapsed

\* the catch block with the error err of this attempt
Caught(err, list) ==
    IF RethrowsAt(attempt, maxAttempts)
    THEN /\ error' = err
         /\ pc' = "done"
         /\ items' = list
         /\ UNCHANGED <<attempt, elapsed>>
    ELSE /\ UNCHANGED error
         /\ IF WaitsAfter(attempt, maxAttempts) THEN StartWait(list)
            ELSE NextIteration

\* Return that stores the code and goes on polling
Return_KeepsPolling(code, list) ==
    /\ result' = code
    /\ output_otp' = IF entry = "script" THEN code ELSE output_otp
    /\ StartWait(list)
    /\ UNCHANGED error

\* return verificationCode; the script stores the value in output.otp
Return(code, list) ==
    /\ result' = code
    /\ output_otp' = IF entry = "script" THEN code ELSE output_otp
    /\ pc' = "done"
    /\ items' = list
    /\ UNCHANGED <<attempt, elapsed, error>>

\* NoCode that raises an error of its own when a message had matched
NoCode_RaisesOnMatch(list) ==
    IF examined' # <<>>
    THEN /\ error' = <<Lit("NoCodeExtracted")>>
         /\ pc' = "done"
         /\ items' = list
         /\ UNCHANGED <<attempt, elapsed, result, output_otp>>
    ELSE /\ IF WaitsAfter(attempt, maxAttempts) THEN StartWait(list)
            ELSE NextIteration
         /\ UNCHANGED <<result, output_otp, error>>

\* NoCode that gives up at once in the fallback controllers
NoCode_FallbackGivesUp(list) ==
    IF fn \in {"smsFallback", "emailFallback"}
    THEN /\ error' = ExhaustedError(fn, identifier, attempt)
         /\ pc' = "done"
         /\ items' = list
         /\ UNCHANGED <<attempt, elapsed, result, output_otp>>
    ELSE /\ IF WaitsAfter(attempt, maxAttempts) THEN StartWait(list)
            ELSE NextIteration
         /\ UNCHANGED <<result, output_otp, error>>

\* the loop over data.items ended without a code and without an exception
NoCode(list) ==
    /\ IF WaitsAfter(attempt, maxAttempts) THEN StartWait(list)
       ELSE NextIteration
    /\ UNCHANGED <<result, output_otp, error>>

\* http.get throws, or answers with a status that is not ok
FetchFails ==
    /\ pc = "loop"
    /\ LoopContinues(attempt, maxAttempts)
    /\ fetches' = fetches + 1
    /\ fetchFailed' = TRUE
    /\ scanned' = ""
    /\ examined' = <<>>
    /\ \/ /\ response' = "transport"
          /\ Caught(TransportError, <<>>)
       \/ /\ response' = "status"
          /\ \E status \in BadStatuses : Caught(FetchError(fn, status), <<>>)
    /\ UNCHANGED <<extractor, normalizer, generator, config, args, waits, result, output_otp>>

\* the response is ok but its JSON has no items: data.items.length throws
FetchNoItems ==
    /\ pc = "loop"
    /\ LoopContinues(attempt, maxAttempts)
    /\ fetches' = fetches + 1
    /\ response' = "noitems"
    /\ scanned' = ""
    /\ examined' = <<>>
    /\ Caught(TypeError, <<>>)
    /\ UNCHANGED <<extractor, normalizer, generator, config, args, fetchFailed, waits, result, output_otp>>

\* the response is ok and carries a list of messages, which is scanned
FetchItems ==
    /\ pc = "loop"
    /\ LoopContinues(attempt, maxAttempts)
    /\ fetches' = fetches + 1
    /\ response' = "items"
    /\ \E list \in Inboxes(fn) :
          \E scan \in {Scan(VerdictsOf(fn, identifier, list), 1, <<>>)} :
             /\ examined' = scan.examined
             /\ scanned' = scan.kind
             /\ CASE scan.kind = "return" -> Return(scan.code, list)
                  [] scan.kind = "throw" ->
                       /\ Caught(TypeError, list)
                       /\ UNCHANGED <<result, output_otp>>
                  [] scan.kind = "none" -> NoCode(list)
    /\ UNCHANGED <<extractor, normalizer, generator, config, args, fetchFailed, waits>>

\* Exhaust that stores null in output.otp before it throws
Exhaust_WritesNull ==
    /\ pc = "loop"
    /\ ~LoopContinues(attempt, maxAttempts)
    /\ error' = ExhaustedError(fn, identifier, maxAttempts)
    /\ output_otp' = NULL
    /\ pc' = "done"
    /\ UNCHANGED <<extractor, normalizer, generator, config, args, attempt, elapsed, response, scanned,
                   fetchFailed, items, examined, fetches, waits, result>>

\* Exhaust that ends the call without throwing
Exhaust_Silent ==
    /\ pc = "loop"
    /\ ~LoopContinues(attempt, maxAttempts)
    /\ pc' = "done"
    /\ UNCHANGED <<extractor, normalizer, generator, config, args, attempt, elapsed, response, scanned,
                   fetchFailed, items, examined, fetches, waits, result,
                   error, output_otp>>

\* the loop test fails: throw new Error('No verification code found ...')
Exhaust ==
    /\ pc = "loop"
    /\ ~LoopContinues(attempt, maxAttempts)
    /\ error' = ExhaustedError(fn, identifier, maxAttempts)
    /\ pc' = "done"
    /\ UNCHANGED <<extractor, normalizer, generator, config, args, attempt, elapsed, response, scanned,
                   fetchFailed, items, examined, fetches, waits, result,
                   output_otp>>

\* the clock advances while the controller spins
ClockTick ==
    /\ pc = "wait"
    /\ StillWaiting(elapsed, retryDelay)
    /\ \E d \in TickSizes : elapsed' = elapsed + d
    /\ UNCHANGED <<extractor, normalizer, generator, pc, config, args, attempt, response, scanned, fetchFailed,
                   items, examined, fetches, waits, result, error, output_otp>>

\* the while condition is read false: attempt++ and the next iteration
\* begins with fresh locals
WaitDone ==
    /\ pc = "wait"
    /\ ~StillWaiting(elapsed, retryDelay)
    /\ waits' = waits + 1
    /\ attempt' = attempt + 1
    /\ response' = "none"
    /\ scanned' = ""
    /\ items' = <<>>
    /\ examined' = <<>>
    /\ pc' = "loop"
    /\ UNCHANGED <<extractor, normalizer, generator, config, args, elapsed, fetchFailed, fetches, result, error,
                   output_otp>>

\* the steps of a controller
Poll ==
    \/ FetchFails
    \/ FetchNoItems
    \/ FetchItems
    \/ Exhaust
    \/ ClockTick
    \/ WaitDone

Next ==
    \/ Call
    \/ Poll

\* direct calls of the controllers
Spec == Init /\ [][Next]_vars

\* direct calls, with a clock that advances and a controller that keeps running
FairSpec == Spec /\ WF_vars(Next)

ScriptNext ==
    \/ Dispatch
    \/ Poll

\* runs of the script
ScriptSpec == ScriptInit /\ [][ScriptNext]_vars

(***************************************************************************)
(* Direct calls of extractVerificationCode.                                *)
(***************************************************************************)
\* most pieces a text given to the extractor is made of
MaxTokens == 4

\* lengths of the digit runs in those texts
RunLengths == {3, 4, 5, 6, 7, 9}

\* a run of n digits that starts with the digit n: 56789, 7890123, ...
RunOf(n) == [k \in 1..n |-> DigitSeq[((n + k - 1) % 10) + 1]]

\* "code " and "Verification Code: "
TokCode == <<"c", "o", "d", "e", " ">>
TokVerificationCode ==
    <<"V", "e", "r", "i", "f", "i", "c", "a", "t", "i", "o", "n", " ",
      "C", "o", "d", "e", ":", " ">>

\* the pieces: digit runs, the two keywords, a space and a letter
Tokens ==
    {RunOf(n) : n \in RunLengths} \cup {TokCode, TokVerificationCode, <<" ">>, <<"a">>}

RECURSIVE TextsUpTo(_)
TextsUpTo(n) ==
    IF n = 0 THEN {<<>>}
    ELSE LET shorter == TextsUpTo(n - 1)
         IN shorter \cup {s \o tok : s \in shorter, tok \in Tokens}

\* the arguments the extractor is called with: texts, null and undefined
ExtractorInputs == TextsUpTo(MaxTokens) \cup {NULL, UNDEFINED}

\* extractVerificationCode is about to be called with some argument
ExtractInit ==
    /\ entry = "extractor"
    /\ env = [MESSAGE_TYPE |-> UNDEFINED, PHONE_NUMBER |-> UNDEFINED,
              EMAIL_ADDRESS |-> UNDEFINED]
    /\ fn = "sms"
    /\ phoneNumber = NULL
    /\ emailAddress = NULL
    /\ maxAttempts = MAX_ATTEMPTS
    /\ retryDelay = RETRY_DELAY
    /\ text \in ExtractorInputs
    /\ extracted = UNDEFINED
    /\ Unnormalized
    /\ Fresh

\* the call runs and returns
Extract ==
    /\ entry = "extractor"
    /\ pc = "start"
    /\ extracted' = extractVerificationCode(text)
    /\ pc' = "done"
    /\ UNCHANGED <<normalizer, generator, config, args, attempt, elapsed,
                   response, scanned, fetchFailed, items, examined, fetches,
                   waits, result, error, output_otp, text>>

ExtractNext == Extract

\* direct calls of the extractor
ExtractSpec == ExtractInit /\ [][ExtractNext]_vars

(***************************************************************************)
(* Direct calls of cleanSMSBody and cleanEmailBody, each followed by a     *)
(* second call on the output and by extractVerificationCode on the output, *)
(* as the controllers chain them.                                          *)
(***************************************************************************)
\* most pieces a body given to a normalizer is made of
MaxPieces == 4

\* "=\r\n", the quoted-printable soft line break
SoftBreak == <<"=", "CR", "LF">>

\* the bell character, U+0007
BEL == "#7"

Code6 == <<"5", "5", "1", "2", "3", "4">>

\* pieces of an SMS body
SmsPieces ==
    {<<"=">>, SoftBreak, <<" ">>, <<"TAB">>, <<BEL>>, Code6, <<"a">>}

\* pieces of an email body
EmailPieces ==
    {<<"=", "3", "D">>, SoftBreak, <<"=", "0", "7">>, <<"&">>,
     <<"a", "m", "p", ";">>, <<"l", "t", ";">>, <<"<", "b", ">">>, Code6,
     <<" ">>}

RECURSIVE BodiesUpTo(_, _)
BodiesUpTo(pieces, n) ==
    IF n = 0 THEN {<<>>}
    ELSE LET shorter == BodiesUpTo(pieces, n - 1)
         IN shorter \cup {s \o piece : s \in shorter, piece \in pieces}

\* what precedes the code in a quoted-printable body: nothing, "=3D",
\* "Code=3D", "Code=3D "
QPPrefixes ==
    {<<>>, <<"=", "3", "D">>, <<"C", "o", "d", "e", "=", "3", "D">>,
     <<"C", "o", "d", "e", "=", "3", "D", " ">>}

\* quoted-printable bodies around the code 551234: an "=3D" before it or
\* not, a soft break inside it or not, a soft break after it or not
QPBodies ==
    {pre \o SubSeq(Code6, 1, k) \o mid \o SubSeq(Code6, k + 1, 6) \o post :
        pre \in QPPrefixes, k \in 1..5, mid \in {<<>>, SoftBreak},
        post \in {<<>>, SoftBreak}}

\* the arguments the normalizer of controller f is called with
NormalizerInputs(f) ==
    BodiesUpTo(IF f \in SmsFunctions THEN SmsPieces ELSE EmailPieces, MaxPieces)
        \cup QPBodies \cup {NULL, UNDEFINED}

\* cleanSMSBody or cleanEmailBody is about to be called with some argument
NormalizeInit ==
    /\ entry = "normalizer"
    /\ env = [MESSAGE_TYPE |-> UNDEFINED, PHONE_NUMBER |-> UNDEFINED,
              EMAIL_ADDRESS |-> UNDEFINED]
    /\ fn \in {"sms", "email"}
    /\ phoneNumber = NULL
    /\ emailAddress = NULL
    /\ maxAttempts = MAX_ATTEMPTS
    /\ retryDelay = RETRY_DELAY
    /\ text = <<>>
    /\ extracted = UNDEFINED
    /\ rawBody \in NormalizerInputs(fn)
    /\ cleaned = UNDEFINED
    /\ recleaned = UNDEFINED
    /\ Fresh

\* the normalizer runs on the body; the extractor and the normalizer run
\* on what it returned
Normalize ==
    /\ entry = "normalizer"
    /\ pc = "start"
    /\ \E out \in {Clean(fn, rawBody)} :
          /\ cleaned' = out
          /\ text' = out
          /\ extracted' = extractVerificationCode(out)
          /\ recleaned' = Clean(fn, out)
    /\ pc' = "done"
    /\ UNCHANGED <<generator, config, args, attempt, elapsed, response,
                   scanned, fetchFailed, items, examined, fetches, waits,
                   result, error, output_otp, rawBody>>

NormalizeNext == Normalize

\* direct calls of the normalizers
NormalizeSpec == NormalizeInit /\ [][NormalizeNext]_vars

(***************************************************************************)
(* The script generate_phone.js.  An outcome of Math.random() is a number  *)
(* r with 0 <= r < 1, written r = k / RandomResolution.                    *)
(***************************************************************************)
RandomResolution == 90

\* the outcomes drawn: the least one, one in the middle, the greatest one
RandomOutcomes == {0, 44, RandomResolution - 1}

\* FloorOfRandomTimes that rounds to the nearest integer
FloorOfRandomTimes_Rounds(k, n) == (2 * k * n + RandomResolution) \div (2 * RandomResolution)

\* Math.floor(Math.random() * n) for the outcome k / RandomResolution
FloorOfRandomTimes(k, n) == (k * n) \div RandomResolution

\* the decimal digits of a natural number, as in the conversion of a number
\* to a string
RECURSIVE NumberToString(_)
NumberToString(n) ==
    IF n < 10 THEN <<DigitSeq[n + 1]>>
    ELSE NumberToString(n \div 10) \o <<DigitSeq[(n % 10) + 1]>>

\* Array.prototype.join('') of an array of numbers
RECURSIVE join(_)
join(arr) ==
    IF arr = <<>> THEN <<>> ELSE NumberToString(Head(arr)) \o join(Tail(arr))

\* {length: 9}
RestLength == 9

\* the script is about to run
GenerateInit ==
    /\ entry = "generator"
    /\ env = [MESSAGE_TYPE |-> UNDEFINED, PHONE_NUMBER |-> UNDEFINED,
              EMAIL_ADDRESS |-> UNDEFINED]
    /\ fn = "sms"
    /\ phoneNumber = NULL
    /\ emailAddress = NULL
    /\ maxAttempts = MAX_ATTEMPTS
    /\ retryDelay = RETRY_DELAY
    /\ text = <<>>
    /\ extracted = UNDEFINED
    /\ Unnormalized
    /\ Fresh

unchangedByGenerator ==
    <<extractor, normalizer, config, args, attempt, elapsed, response,
      scanned, fetchFailed, items, examined, fetches, waits, result, error,
      output_otp>>

\* const firstDigit = Math.floor(Math.random() * 9) + 1
DrawFirstDigit ==
    /\ entry = "generator"
    /\ pc = "start"
    /\ \E k \in RandomOutcomes : firstDigit' = FloorOfRandomTimes(k, 9) + 1
    /\ pc' = "rest"
    /\ UNCHANGED <<restDigits, generated, output_generatedPhone,
                   unchangedByGenerator>>

\* Array.from calls () => Math.floor(Math.random() * 10) for the next index
DrawRestDigit ==
    /\ entry = "generator"
    /\ pc = "rest"
    /\ Len(restDigits) < RestLength
    /\ \E k \in RandomOutcomes :
          restDigits' = Append(restDigits, FloorOfRandomTimes(k, 10))
    /\ UNCHANGED <<pc, firstDigit, generated, output_generatedPhone,
                   unchangedByGenerator>>

\* return firstDigit + restDigits.join(''), a string since the right operand
\* is one; the script stores it in phoneNumber and output.generatedPhone
ReturnPhone ==
    /\ entry = "generator"
    /\ pc = "rest"
    /\ Len(restDigits) = RestLength
    /\ generated' = NumberToString(firstDigit) \o join(restDigits)
    /\ output_generatedPhone' = generated'
    /\ pc' = "done"
    /\ UNCHANGED <<firstDigit, restDigits, unchangedByGenerator>>

GenerateNext ==
    \/ DrawFirstDigit
    \/ DrawRestDigit
    \/ ReturnPhone

\* runs of generate_phone.js
GenerateSpec == GenerateInit /\ [][GenerateNext]_vars

(***************************************************************************)
(* Vocabulary of the properties.                                           *)
(***************************************************************************)
Returned == pc = "done" /\ result # NULL
Raised == pc = "done" /\ error # <<>>

\* items still holds the list the last attempt fetched
ListKept ==
    /\ response = "items"
    /\ \/ pc = "wait"
       \/ pc = "done" /\ scanned \in {"return", "throw"}

HasLit(err, w) == \E i \in 1..Len(err) : err[i].k = "lit" /\ err[i].v = w

\* the message interpolates the string id
NamesIdentifier(err, id) ==
    \E i \in 1..Len(err) : err[i].k = "str" /\ err[i].v = id

\* the message reads "... n attempts"
NamesCount(err, n) ==
    \E i \in 1..(Len(err) - 1) :
        /\ err[i].k = "num"
        /\ err[i].v = n
        /\ err[i + 1].k = "lit"
        /\ err[i + 1].v = "attempts"

NamesFallback(err) == HasLit(err, "fallback mode")

NamesChannel(err, f) ==
    IF f \in SmsFunctions THEN HasLit(err, "SMS")
    ELSE HasLit(err, "email") \/ HasLit(err, "emails")

\* the identifier of a filtered controller, the fallback indicator otherwise
NamesTarget(err, f, id) ==
    IF f \in {"sms", "email"} THEN NamesIdentifier(err, id)
    ELSE NamesFallback(err)

\* err is what a failed http.get raises in controller f
IsFetchError(err, f) ==
    \/ err = TransportError
    \/ \E status \in BadStatuses : err = FetchError(f, status)

Last(s) == s[Len(s)]

\* the verdict of the running controller on the i-th fetched message
VerdictAt(i) == VerdictTable[<<fn, identifier, items[i]>>]

\* indices of the fetched messages that match the selector and yield a code
CodeIdx ==
    {i \in 1..Len(items) : VerdictAt(i).kind = "match" /\ Truthy(VerdictAt(i).code)}

MinOf(S) == CHOOSE i \in S : \A j \in S : i <= j

(***************************************************************************)
(* C1: retry exhaustion.  For every maxAttempts >= 1, a call whose fetches *)
(* all succeed and that extracts no code ends after exactly maxAttempts    *)
(* fetches with an error naming the identifier (or the fallback mode) and  *)
(* the count maxAttempts.                                                  *)
(***************************************************************************)
C1_RetryExhaustion ==
    (pc = "done" /\ maxAttempts >= 1 /\ ~fetchFailed /\ result = NULL) =>
        /\ fetches = maxAttempts
        /\ NamesTarget(error, fn, identifier)
        /\ NamesCount(error, maxAttempts)

(***************************************************************************)
(* C2: success is terminal and immediate.  A returned code is the code of  *)
(* the last message examined, every message examined before it yielded     *)
(* none, a success at attempt k has made k fetches and k-1 waits, and no   *)
(* step follows it.                                                        *)
(***************************************************************************)
C2_SuccessTerminal ==
    /\ [](result # NULL =>
            /\ pc = "done"
            /\ error = <<>>
            /\ fetches = attempt
            /\ waits = attempt - 1
            /\ examined # <<>>
            /\ result = CodeOf(fn, items[Last(examined)])
            /\ \A j \in 1..(Len(examined) - 1) :
                  /\ examined[j] < Last(examined)
                  /\ ~Truthy(CodeOf(fn, items[examined[j]])))
    /\ [][result # NULL => UNCHANGED vars]_vars

\* a call returned at its second attempt from the first of two messages
C2_Witness ==
    /\ Returned
    /\ attempt = 2
    /\ Len(items) = 2
    /\ examined = <<1>>

C4_FetchFailureAbsorbed ==
    /\ [][(pc = "loop" /\ fetches' # fetches
              /\ response' \in {"transport", "status"}) =>
            IF attempt < maxAttempts
            THEN pc' = "wait" /\ error' = <<>> /\ attempt' = attempt
            ELSE pc' = "done" /\ IsFetchError(error', fn)]_vars
    /\ [][(pc = "wait" /\ pc' # "wait") =>
            /\ pc' = "loop"
            /\ attempt' = attempt + 1
            /\ elapsed >= retryDelay]_vars
    /\ [](error # <<>> => pc = "done" /\ attempt >= maxAttempts)

\* a call saw a fetch fail and returned a code from a later attempt
C4_Witness ==
    /\ Returned
    /\ fetchFailed
    /\ attempt >= 2

(***************************************************************************)
(* C5: every failure surfaced to the caller, whatever its cause, carries   *)
(* the channel, the identifier (or the fallback indicator) and the attempt *)
(* count.                                                                  *)
(***************************************************************************)
C5_EveryFailureCarriesContext ==
    Raised =>
        /\ NamesChannel(error, fn)
        /\ NamesTarget(error, fn, identifier)
        /\ NamesCount(error, maxAttempts)

(***************************************************************************)
(* C5 as amended: a failure surfaced after a last attempt that ended in no *)
(* match or no extracted code carries the channel, the identifier (or the  *)
(* fallback indicator) and the attempt count; when the last attempt ends   *)
(* in a thrown error (a failed fetch or an exception raised inside the     *)
(* attempt) that error itself is surfaced, and it names neither the        *)
(* identifier nor the attempt count.                                       *)
(***************************************************************************)
C5_FailureContext ==
    (Raised /\ fetches >= 1) =>
        IF response = "items" /\ scanned = "none"
        THEN /\ NamesChannel(error, fn)
             /\ NamesTarget(error, fn, identifier)
             /\ NamesCount(error, maxAttempts)
        ELSE /\ IF response \in {"transport", "status"}
                THEN IsFetchError(error, fn)
                ELSE error = TypeError
             /\ ~NamesIdentifier(error, identifier)
             /\ ~NamesCount(error, maxAttempts)

\* a call ended by the bad status of its last fetch
C5_Witness ==
    /\ Raised
    /\ response = "status"
    /\ fetches = maxAttempts

(***************************************************************************)
(* C6: for maxAttempts >= 1, under a clock that advances, every call ends, *)
(* after at most maxAttempts fetches, either with one code string or with  *)
(* an error, never with neither, and it ends without a code only after    *)
(* maxAttempts fetches.                                                    *)
(***************************************************************************)
IsCode(v) == Truthy(v) /\ \A i \in 1..Len(v) : IsDigit(v[i])

C6_Terminates ==
    /\ (maxAttempts >= 1) ~> (pc = "done")
    /\ [](maxAttempts >= 1 => fetches <= maxAttempts)
    /\ []((pc = "done" /\ maxAttempts >= 1) =>
            /\ (result # NULL) # (error # <<>>)
            /\ result # NULL => IsCode(result)
            /\ result = NULL => fetches = maxAttempts)

\* a call of several attempts, one of them a failed fetch, ended in an error
C6_Witness ==
    /\ Raised
    /\ maxAttempts >= 2
    /\ fetches = maxAttempts
    /\ fetchFailed
    /\ waits >= 1

(***************************************************************************)
(* C7: the outcome of an attempt depends only on the list it fetched: when *)
(* that list holds a matching message with an extractable code the call    *)
(* returns a code at this attempt, whatever else the list holds.           *)
(***************************************************************************)
C7_FreshListDecides ==
    (ListKept /\ CodeIdx # {}) =>
        /\ Returned
        /\ fetches = attempt

(***************************************************************************)
(* C8: the script runs the fallback controller of the selected channel     *)
(* when that channel's identifier is absent, null or empty, the filtered   *)
(* controller when it is present, and the dispatch itself raises no error. *)
(***************************************************************************)
Absent(x) == x \in {UNDEFINED, NULL, <<>>}

SelectedChannel ==
    IF ~Absent(env.MESSAGE_TYPE) /\ toLowerCase(env.MESSAGE_TYPE) = Str_email
    THEN "email" ELSE "sms"

C8_FallbackDispatch ==
    /\ []((entry = "script" /\ pc # "start") =>
            /\ SelectedChannel = "sms" =>
                  /\ fn = IF Absent(env.PHONE_NUMBER) THEN "smsFallback" ELSE "sms"
                  /\ fn = "sms" => identifier = env.PHONE_NUMBER
            /\ SelectedChannel = "email" =>
                  /\ fn = IF Absent(env.EMAIL_ADDRESS) THEN "emailFallback"
                          ELSE "email"
                  /\ fn = "email" => identifier = env.EMAIL_ADDRESS)
    /\ [][pc = "start" => pc' = "loop" /\ error' = <<>>]_vars

\* a script run without PHONE_NUMBER returned a code in fallback mode
C8_Witness ==
    /\ entry = "script"
    /\ Absent(env.PHONE_NUMBER)
    /\ fn = "smsFallback"
    /\ Returned

(***************************************************************************)
(* C9: in filtered SMS mode every message normalized and extracted from,   *)
(* and so the one a returned code comes from, has a first Subject value    *)
(* containing "SMS" (case-sensitive) and the identifier.                   *)
(***************************************************************************)
C9_SmsFilter ==
    (fn = "sms" /\ ListKept) =>
        /\ \A j \in 1..Len(examined) :
              LET m == items[examined[j]]
              IN /\ HasSubject(m)
                 /\ m.Subject # <<>>
                 /\ includes(m.Subject[1], Str_SMS)
                 /\ includes(m.Subject[1], phoneNumber)
        /\ Returned =>
              /\ examined # <<>>
              /\ result = extractVerificationCode(
                              cleanSMSBody(BodyOf(items[Last(examined)])))

\* a code was returned from the second message, the first one not matching
C9_Witness ==
    /\ fn = "sms"
    /\ Returned
    /\ examined = <<2>>

(***************************************************************************)
(* C10: in filtered email mode every message used has a first From value   *)
(* containing the sender marker, a first Subject value containing          *)
(* "verification" in any letter case, and a recipient whose mailbox + "@"  *)
(* + domain equals the identifier exactly.                                 *)
(***************************************************************************)
C10_EmailFilter ==
    (fn = "email" /\ ListKept) =>
        /\ \A j \in 1..Len(examined) :
              LET m == items[examined[j]]
              IN /\ {"From", "Subject", "To"} \subseteq m.has
                 /\ m.From # <<>>
                 /\ includes(m.From[1], Str_support)
                 /\ m.Subject # <<>>
                 /\ includes(toLowerCase(m.Subject[1]), Str_verification)
                 /\ \E r \in 1..Len(m.To) :
                       m.To[r].Mailbox \o <<"@">> \o m.To[r].Domain = emailAddress
        /\ Returned =>
              /\ examined # <<>>
              /\ result = extractVerificationCode(
                              cleanEmailBody(BodyOf(items[Last(examined)])))

\* a code was returned from the second message, the first one not matching
C10_Witness ==
    /\ fn = "email"
    /\ Returned
    /\ examined = <<2>>

(***************************************************************************)
(* Vocabulary of the properties of the extractor.                          *)
(***************************************************************************)
\* a direct call of the extractor has returned
Called == entry = "extractor" /\ pc = "done"

\* positions at which a maximal run of digits of s begins
DigitRuns(s) ==
    {i \in 1..Len(s) : IsDigit(s[i]) /\ (i = 1 \/ ~IsDigit(s[i - 1]))}

RunLength(s, i) == RunLen(s, i, Digits)

\* the digits of the run that begins at position i
RunDigits(s, i) == SubSeq(s, i, i + RunLength(s, i) - 1)

\* the run that begins at i has no word character on either side
Standalone(s, i) ==
    /\ i = 1 \/ ~IsWord(s[i - 1])
    /\ i + RunLength(s, i) > Len(s) \/ ~IsWord(s[i + RunLength(s, i)])

\* the standalone runs of s whose length is in lens
StandaloneRuns(s, lens) ==
    {i \in DigitRuns(s) : Standalone(s, i) /\ RunLength(s, i) \in lens}

\* the position of the digits that follow the keyword at position i
TaggedAt(s, i) == AfterSeparator(s, CHOOSE e \in KeywordEnds(s, i) : TRUE)

\* positions of a keyword that is followed, after an optional colon and
\* whitespace, by a run of 4 to 8 digits
KeywordTagged(s) ==
    {i \in 1..Len(s) :
        KeywordEnds(s, i) # {} /\ RunLength(s, TaggedAt(s, i)) \in 4..8}

(***************************************************************************)
(* C15: the extractor returns null or a string of 4 to 8 decimal digits.   *)
(***************************************************************************)
C15_ExtractionOutcome ==
    Called =>
        \/ extracted = NULL
        \/ /\ Len(extracted) \in 4..8
           /\ \A i \in 1..Len(extracted) : IsDigit(extracted[i])

\* eight digits were returned from a text whose run has nine
C15_Witness ==
    /\ Called
    /\ extracted # NULL
    /\ Len(extracted) = 8
    /\ \E i \in DigitRuns(text) : RunLength(text, i) = 9

(***************************************************************************)
(* C16: from a text with a standalone run of exactly 6 digits the          *)
(* extractor returns the leftmost such run, whatever else the text holds.  *)
(***************************************************************************)
C16_StandaloneSix ==
    (Called /\ StandaloneRuns(text, {6}) # {}) =>
        extracted = RunDigits(text, MinOf(StandaloneRuns(text, {6})))

\* the 6-digit run was returned although a keyword with a code and a
\* standalone 5-digit run come before it
C16_Witness ==
    /\ Called
    /\ StandaloneRuns(text, {6}) # {}
    /\ \E i \in KeywordTagged(text) : i < MinOf(StandaloneRuns(text, {6}))
    /\ \E i \in StandaloneRuns(text, {5}) : i < MinOf(StandaloneRuns(text, {6}))

(***************************************************************************)
(* C17: from a text with a run of 7 digits and no run of 6 digits the      *)
(* extractor returns the first 6 digits of a 7-digit run.                  *)
(***************************************************************************)
C17_SevenDigitRun ==
    (/\ Called
     /\ \E i \in DigitRuns(text) : RunLength(text, i) = 7
     /\ \A i \in DigitRuns(text) : RunLength(text, i) # 6) =>
        \E i \in DigitRuns(text) :
            /\ RunLength(text, i) = 7
            /\ extracted = SubSeq(text, i, i + 5)

(***************************************************************************)
(* C17 as amended: from a text with no standalone run of 6 digits whose    *)
(* leftmost standalone run of 5 to 7 digits has 7 digits, the extractor    *)
(* returns the first 6 digits of that run.                                 *)
(***************************************************************************)
C17_StandaloneSeven ==
    (/\ Called
     /\ StandaloneRuns(text, {6}) = {}
     /\ StandaloneRuns(text, {5, 7}) # {}
     /\ RunLength(text, MinOf(StandaloneRuns(text, {5, 7}))) = 7) =>
        LET i == MinOf(StandaloneRuns(text, {5, 7}))
        IN extracted = SubSeq(text, i, i + 5)

\* six of the seven digits were returned, a run of 4 digits coming first
C17_Witness ==
    /\ Called
    /\ StandaloneRuns(text, {6}) = {}
    /\ StandaloneRuns(text, {5, 7}) # {}
    /\ RunLength(text, MinOf(StandaloneRuns(text, {5, 7}))) = 7
    /\ \E i \in StandaloneRuns(text, {4}) :
          i < MinOf(StandaloneRuns(text, {5, 7}))
    /\ Len(extracted) = 6

(***************************************************************************)
(* C18: strategy 2 comes before strategy 3.  From a text with no           *)
(* standalone run of 6 digits and a standalone run of 5 or 7, the result   *)
(* is the leftmost standalone run of 5 to 7 digits (as it is when it has   *)
(* 5 digits, its first 6 when it has 7), even when a keyword followed by   *)
(* 4 to 8 digits comes earlier in the text.                                *)
(***************************************************************************)
C18_StrategyOrder ==
    (/\ Called
     /\ StandaloneRuns(text, {6}) = {}
     /\ StandaloneRuns(text, {5, 7}) # {}) =>
        LET i == MinOf(StandaloneRuns(text, {5, 6, 7}))
        IN /\ RunLength(text, i) = 5 => extracted = RunDigits(text, i)
           /\ RunLength(text, i) = 7 => extracted = SubSeq(text, i, i + 5)
           /\ RunLength(text, i) \in {5, 7}

\* a 5-digit run was returned although a keyword with a 4-digit code
\* comes before it
C18_Witness ==
    /\ Called
    /\ StandaloneRuns(text, {6}) = {}
    /\ StandaloneRuns(text, {5, 7}) # {}
    /\ \E k \in KeywordTagged(text) :
          /\ k < MinOf(StandaloneRuns(text, {5, 7}))
          /\ TaggedAt(text, k) < MinOf(StandaloneRuns(text, {5, 7}))
    /\ Len(extracted) = 5

(***************************************************************************)
(* C19: from a text with no standalone run of 5 to 7 digits in which a     *)
(* keyword is followed (after an optional colon and whitespace) by a run   *)
(* of 4 to 8 digits, the extractor returns the digits that follow the      *)
(* leftmost such keyword, unmodified.                                      *)
(***************************************************************************)
C19_KeywordCode ==
    (/\ Called
     /\ StandaloneRuns(text, {5, 6, 7}) = {}
     /\ KeywordTagged(text) # {}) =>
        extracted = RunDigits(text, TaggedAt(text, MinOf(KeywordTagged(text))))

(***************************************************************************)
(* C20: from a text all of whose digit runs are shorter than 4 digits      *)
(* (among them the text without digits and the empty text) the extractor   *)
(* returns null.                                                           *)
(***************************************************************************)
C20_ShortRunsOnly ==
    (Called /\ \A i \in DigitRuns(text) : RunLength(text, i) < 4) =>
        extracted = NULL

\* null was returned for a text with a keyword and a run of 3 digits
C20_Witness ==
    /\ Called
    /\ extracted = NULL
    /\ \E i \in DigitRuns(text) : RunLength(text, i) = 3
    /\ \E i \in 1..Len(text) : KeywordEnds(text, i) # {}
    /\ \A i \in DigitRuns(text) : RunLength(text, i) < 4

(***************************************************************************)
(* C11: in SMS fallback mode the messages normalized and extracted from    *)
(* are exactly the scanned messages whose first Subject value contains     *)
(* "SMS", whatever their recipients and whatever number the subject holds. *)
(***************************************************************************)
\* the first Subject value of m contains "SMS"
SubjectHasSMS(m) ==
    /\ {"Content", "Headers", "Subject"} \subseteq m.has
    /\ m.Subject # <<>>
    /\ includes(m.Subject[1], Str_SMS)

C11_SmsFallbackSelector ==
    (fn = "smsFallback" /\ ListKept /\ scanned \in {"none", "return"}) =>
        LET last == IF scanned = "return" THEN Last(examined) ELSE Len(items)
        IN {examined[j] : j \in 1..Len(examined)} =
               {i \in 1..last : SubjectHasSMS(items[i])}

\* the fallback controller returned the code of a message that has
\* recipients and whose subject names another number than 12
C11_Witness ==
    /\ fn = "smsFallback"
    /\ Returned
    /\ items[Last(examined)].To # <<>>
    /\ ~includes(items[Last(examined)].Subject[1], Phone12)

(***************************************************************************)
(* C12: an attempt whose matching messages yield no code ends like an      *)
(* attempt without a matching message: no error and no result at the       *)
(* attempt, a wait and the next attempt when attempts remain, the          *)
(* exhaustion error otherwise.                                             *)
(***************************************************************************)
C12_NoCodeLikeNoMatch ==
    /\ [][(fetches' # fetches /\ scanned' = "none") =>
            /\ error' = <<>>
            /\ result' = NULL
            /\ IF attempt < maxAttempts
               THEN pc' = "wait" /\ attempt' = attempt
               ELSE pc' = "loop" /\ attempt' = attempt + 1]_vars
    /\ []((pc = "done" /\ scanned = "none") =>
            /\ result = NULL
            /\ error = ExhaustedError(fn, identifier, maxAttempts))

\* a last attempt in which a message matched and gave no code ended in the
\* exhaustion error
C12_Witness ==
    /\ Raised
    /\ scanned = "none"
    /\ examined # <<>>
    /\ error = ExhaustedError(fn, identifier, maxAttempts)

(***************************************************************************)
(* C13: a message that lacks an expected header, or whose header has no    *)
(* values, is skipped: inspecting a fetched list never raises an error     *)
(* and never aborts the attempt.                                           *)
(***************************************************************************)
C13_HeaderlessSkipped ==
    ListKept =>
        /\ scanned # "throw"
        /\ error # TypeError

(***************************************************************************)
(* C14: between two consecutive fetches the controller completes exactly   *)
(* one wait, of at least retryDelay; it waits neither before the first     *)
(* fetch nor after the last attempt, so a call that ends after k fetches   *)
(* has made k - 1 waits.                                                   *)
(***************************************************************************)
C14_OneWaitBetweenFetches ==
    /\ [][fetches' # fetches =>
            fetches' = fetches + 1 /\ waits = fetches]_vars
    /\ [][waits' # waits =>
            /\ waits' = waits + 1
            /\ waits' = fetches
            /\ elapsed >= retryDelay]_vars
    /\ [](pc = "wait" => fetches = waits + 1 /\ attempt < maxAttempts)
    /\ []((pc = "done" /\ fetches >= 1) => waits = fetches - 1)

\* a call of three attempts, one of them a failed fetch, ended after two
\* waits of retryDelay
C14_Witness ==
    /\ pc = "done"
    /\ fetches = 3
    /\ waits = 2
    /\ fetchFailed
    /\ retryDelay = RETRY_DELAY

(***************************************************************************)
(* Vocabulary of the properties of the normalizers.                        *)
(***************************************************************************)
\* a direct call of a normalizer has returned, and so have the calls on its
\* output
Normalized == entry = "normalizer" /\ pc = "done"

\* the argument was a string
IsText(x) == x # NULL /\ x # UNDEFINED

\* s holds the character c
HasChar(s, c) == \E i \in 1..Len(s) : s[i] = c

\* s holds the characters of lit in a row
Holds(s, lit) == \E i \in 1..Len(s) : MatchAt(s, i, lit)

\* the C0 control characters and DEL
ControlChars ==
    {"TAB", "CR", "LF", "VT", "FF"}
        \cup {"#" \o ToString(n) : n \in (0..31) \cup {127}}

\* line terminators
LineBreaks == {"CR", "LF"}

(***************************************************************************)
(* C21: cleanSMSBody is idempotent.  For every string x,                   *)
(* cleanSMSBody(cleanSMSBody(x)) equals cleanSMSBody(x).                   *)
(***************************************************************************)
C21_SmsIdempotent ==
    (Normalized /\ fn = "sms" /\ IsText(rawBody)) => recleaned = cleaned

(***************************************************************************)
(* C22: cleanEmailBody is idempotent.  For every string x, among them the  *)
(* strings with nested entity encodings and those with an escaped "="      *)
(* followed by hex digits, cleanEmailBody(cleanEmailBody(x)) equals        *)
(* cleanEmailBody(x).                                                      *)
(***************************************************************************)
C22_EmailIdempotent ==
    (Normalized /\ fn = "email" /\ IsText(rawBody)) => recleaned = cleaned

(***************************************************************************)
(* C23: for every argument, what either normalizer returns has no leading  *)
(* and no trailing whitespace, no line-break character and no two          *)
(* whitespace characters in a row.                                         *)
(***************************************************************************)
C23_OutputWhitespace ==
    Normalized =>
        /\ cleaned # <<>> =>
              ~IsSpace(cleaned[1]) /\ ~IsSpace(cleaned[Len(cleaned)])
        /\ \A i \in 1..Len(cleaned) : cleaned[i] \notin LineBreaks
        /\ \A i \in 1..(Len(cleaned) - 1) :
              ~(IsSpace(cleaned[i]) /\ IsSpace(cleaned[i + 1]))

\* a body that starts with two whitespace characters and ends with a line
\* break was normalized to a text that is not empty
C23_Witness ==
    /\ Normalized
    /\ IsText(rawBody)
    /\ Len(rawBody) >= 4
    /\ rawBody[1] = " "
    /\ IsSpace(rawBody[2])
    /\ rawBody[Len(rawBody)] = "LF"
    /\ cleaned # <<>>

(***************************************************************************)
(* C24: for every argument, what cleanEmailBody returns holds no "<", no   *)
(* ">" and no control character, and what cleanSMSBody returns holds no    *)
(* control character.                                                      *)
(***************************************************************************)
C24_NoMarkupNoControl ==
    Normalized =>
        /\ \A i \in 1..Len(cleaned) : cleaned[i] \notin ControlChars
        /\ fn = "email" => ~HasChar(cleaned, "<") /\ ~HasChar(cleaned, ">")

(***************************************************************************)
(* C25: quoted-printable artifacts do not block extraction in the email    *)
(* channel.  For a body in which the 6-digit code 551234 is preceded by an *)
(* "=3D" escape, or followed or split by a soft break "=CRLF",             *)
(* cleanEmailBody followed by extractVerificationCode returns 551234.      *)
(***************************************************************************)
C25_QPExtraction ==
    (/\ Normalized
     /\ fn = "email"
     /\ rawBody \in QPBodies
     /\ Holds(rawBody, <<"=", "3", "D">>) \/ Holds(rawBody, SoftBreak))
        => extracted = Code6

(***************************************************************************)
(* C26: fallback mode runs the identical state machine.  What a step of a  *)
(* controller does to the loop (fetch, wait, return, raise) is decided by  *)
(* the attempt number, maxAttempts, retryDelay, the clock and the outcome  *)
(* of the attempt's fetch alone: a failure, a list in which a matching     *)
(* message gives a code, or a list in which none does.  None of it depends *)
(* on which of the four controllers runs, so a filtered controller and the *)
(* fallback controller of its channel, given the same outcomes, go through *)
(* the same fetches, waits, return and raise.                              *)
(***************************************************************************)
\* the outcome of an attempt's fetch, from the response and from how the
\* loop over its messages ended
FetchOutcome(resp, scan) ==
    IF resp = "items" /\ scan = "return" THEN "code"
    ELSE IF resp \in {"transport", "status", "noitems"} \/ scan = "throw"
    THEN "failure"
    ELSE "nothing"

NamedPhones(subject) == {RunDigits(subject, i) : i \in DigitRuns(subject)}

\* message m is addressed to an identity other than id
OtherIdentity(f, id, m) ==
    IF f \in SmsFunctions
    THEN /\ HasSubject(m)
         /\ m.Subject # <<>>
         /\ NamedPhones(m.Subject[1]) # {}
         /\ id \notin NamedPhones(m.Subject[1])
    ELSE \A i \in 1..Len(m.To) :
            m.To[i].Mailbox \o <<"@">> \o m.To[i].Domain # id

C27_Isolation ==
    (Returned /\ fn \in {"sms", "email"}) =>
        ~OtherIdentity(fn, identifier, items[Last(examined)])

(***************************************************************************)
(* C28: in every run, runs that mix fetch failures with attempts without a *)
(* match included, the attempt counter starts at 1, has grown by exactly 1 *)
(* from one fetch to the next, is at most maxAttempts in every attempt,    *)
(* and each attempt issues exactly one HTTP GET: the k-th GET is issued    *)
(* with the counter at k, and the GETs never number more than maxAttempts. *)
(***************************************************************************)
C28_AttemptCounter ==
    /\ [][pc = "start" => attempt' = 1 /\ fetches' = 0]_vars
    /\ [][attempt' # attempt => attempt' = attempt + 1]_vars
    /\ [][fetches' # fetches =>
            /\ fetches' = fetches + 1
            /\ attempt = fetches'
            /\ attempt >= 1
            /\ attempt <= maxAttempts]_vars
    /\ [](pc = "wait" => attempt = fetches /\ attempt < maxAttempts)
    /\ [](pc = "loop" => attempt = fetches + 1)
    /\ [](fetches = 0 \/ fetches <= maxAttempts)

\* a call with maxAttempts = 3 gave up after three GETs, one of which
\* failed, the last one answered by a list without a code
C28_Witness ==
    /\ Raised
    /\ maxAttempts = 3
    /\ fetches = 3
    /\ attempt = 4
    /\ fetchFailed
    /\ response = "items"
    /\ scanned = "none"

(***************************************************************************)
(* C29: a digit run longer than 8 digits is not a code.  For a normalized  *)
(* text whose only digit run has 9 or more digits, with a "code" keyword   *)
(* before it or without, the extractor returns null and not a prefix of    *)
(* the run.                                                                *)
(***************************************************************************)
C29_LongRunIsNoCode ==
    (/\ Called
     /\ IsText(text)
     /\ cleanSMSBody(text) = text
     /\ Cardinality(DigitRuns(text)) = 1
     /\ \A i \in DigitRuns(text) : RunLength(text, i) >= 9)
        => extracted = NULL

(***************************************************************************)
(* C30: the channel value selects both the selector and the normalizer.    *)
(* When MESSAGE_TYPE equals "email", compared case-insensitively, the      *)
(* script runs an email controller whatever PHONE_NUMBER is, every message *)
(* extracted from passes the email selector and a returned code is the     *)
(* extractor's result on cleanEmailBody of the body.  When MESSAGE_TYPE is *)
(* absent or anything else, the script runs an SMS controller whatever     *)
(* EMAIL_ADDRESS is, every message extracted from passes the SMS selector  *)
(* and a returned code is the extractor's result on cleanSMSBody of the    *)
(* body.                                                                   *)
(***************************************************************************)
\* what the extractor gives for the body of each sample message after
\* cleanEmailBody, and after cleanSMSBody
EmailCodes ==
    CHOOSE table \in {[m \in SampleMessages |->
                          extractVerificationCode(cleanEmailBody(BodyOf(m)))]} :
        table = table

SmsCodes ==
    CHOOSE table \in {[m \in SampleMessages |->
                          extractVerificationCode(cleanSMSBody(BodyOf(m)))]} :
        table = table

C30_ChannelSelects ==
    (entry = "script" /\ pc # "start") =>
        /\ SelectedChannel = "email" =>
              /\ fn \in {"email", "emailFallback"}
              /\ \A p \in PhoneNumbers :
                    Route(messageType, OrDefault(p, NULL), emailAddress) = fn
              /\ ListKept =>
                    \A j \in 1..Len(examined) :
                       LET m == items[examined[j]]
                       IN /\ EmailFallbackMatches(m)
                          /\ fn = "email" => isForTargetEmail(m.To, emailAddress)
              /\ Returned =>
                    result = EmailCodes[items[Last(examined)]]
        /\ SelectedChannel = "sms" =>
              /\ fn \in {"sms", "smsFallback"}
              /\ \A e \in EmailAddresses :
                    Route(messageType, phoneNumber, OrDefault(e, NULL)) = fn
              /\ ListKept =>
                    \A j \in 1..Len(examined) :
                       LET m == items[examined[j]]
                       IN /\ SubjectHasSMS(m)
                          /\ fn = "sms" => includes(m.Subject[1], phoneNumber)
              /\ Returned =>
                    result = SmsCodes[items[Last(examined)]]

\* a run with MESSAGE_TYPE "Email" and a PHONE_NUMBER returned a code that
\* the raw body does not give
C30_Witness ==
    /\ entry = "script"
    /\ env.MESSAGE_TYPE = <<"E", "m", "a", "i", "l">>
    /\ env.PHONE_NUMBER = Phone12
    /\ Returned
    /\ result # extractVerificationCode(BodyOf(items[Last(examined)]))

(***************************************************************************)
(* C31: a message that passes the selector and whose body is absent or     *)
(* empty is normalized to the empty string, gives no code and raises no    *)
(* error: the scan goes on past it, and an attempt in which no other       *)
(* message gives a code ends as an attempt without a match.                *)
(***************************************************************************)
C31_EmptyBodyNoMatch ==
    /\ [](ListKept =>
            \A j \in 1..Len(examined) :
               LET m == items[examined[j]]
               IN Absent(BodyOf(m)) =>
                     /\ cleanSMSBody(BodyOf(m)) = <<>>
                     /\ cleanEmailBody(BodyOf(m)) = <<>>
                     /\ VerdictAt(examined[j]) = [kind |-> "match", code |-> NULL]
                     /\ Returned => examined[j] # Last(examined)
                     /\ (scanned = "none" /\ pc = "wait") =>
                           error = <<>> /\ result = NULL)
    /\ [][(fetches' # fetches /\ scanned' = "none") =>
            /\ error' = <<>>
            /\ result' = NULL
            /\ pc' = IF attempt < maxAttempts THEN "wait" ELSE "loop"]_vars

\* the only message examined in an attempt had no body or an empty one, and
\* the controller waits for the next attempt
C31_Witness ==
    /\ pc = "wait"
    /\ scanned = "none"
    /\ Len(examined) = 1
    /\ Absent(BodyOf(items[examined[1]]))

(***************************************************************************)
(* C32: output.otp is written at most once in a script run, only when the  *)
(* retrieval call has returned a code and with exactly that code; when the *)
(* retrieval fails output.otp stays unwritten and the error leaves the     *)
(* script.                                                                 *)
(***************************************************************************)
C32_OutputWrittenOnce ==
    /\ [][output_otp' # output_otp =>
            /\ output_otp = UNDEFINED
            /\ result = NULL
            /\ result' # NULL
            /\ output_otp' = result'
            /\ pc' = "done"]_vars
    /\ [](output_otp # UNDEFINED => Returned /\ output_otp = result)
    /\ []((entry = "script" /\ Returned) => output_otp = result)
    /\ []((entry = "script" /\ pc = "done" /\ result = NULL) =>
            output_otp = UNDEFINED /\ error # <<>>)

\* a script run wrote the code of its third attempt to output.otp
C32_Witness ==
    /\ entry = "script"
    /\ Returned
    /\ attempt = 3
    /\ output_otp = result
    /\ IsCode(output_otp)

(***************************************************************************)
(* C33: when a fetched list holds messages that pass the selector and give *)
(* a code, the code returned is the one of the earliest of them in inbox   *)
(* order; the code of a later message is never returned in its place.      *)
(***************************************************************************)
C33_EarliestCode ==
    Returned =>
        /\ CodeIdx # {}
        /\ Last(examined) = MinOf(CodeIdx)
        /\ result = VerdictAt(MinOf(CodeIdx)).code
        /\ \A i \in CodeIdx : i > MinOf(CodeIdx) =>
              i \notin {examined[j] : j \in 1..Len(examined)}

\* two messages of the list give different codes and the first one's was
\* returned
C33_Witness ==
    /\ Returned
    /\ Cardinality(CodeIdx) = 2
    /\ \E i \in CodeIdx : VerdictAt(i).code # result

(***************************************************************************)
(* C34: an ok response whose JSON has no items is taken for an empty list. *)
(* The attempt ends without an error, as one without a match, and when it  *)
(* was the last attempt the call ends in the exhaustion error that names   *)
(* the identifier and maxAttempts.                                         *)
(***************************************************************************)
C34_MissingItemsIsEmptyList ==
    response = "noitems" =>
        /\ error # TypeError
        /\ pc = "done" =>
              /\ NamesTarget(error, fn, identifier)
              /\ NamesCount(error, maxAttempts)

(***************************************************************************)
(* C35: every code the extractor returns is a contiguous substring of the  *)
(* text it was given; no digit is invented, moved, or joined with digits   *)
(* of another run.                                                         *)
(***************************************************************************)
C35_CodeIsSubstring ==
    (Called /\ extracted # NULL) =>
        /\ IsText(text)
        /\ extracted # <<>>
        /\ Holds(text, extracted)

\* the text had two digit runs and the 6 digits returned are the head of
\* its 7-digit run
C35_Witness ==
    /\ Called
    /\ IsText(text)
    /\ Cardinality(DigitRuns(text)) = 2
    /\ Len(extracted) = 6
    /\ \E i \in DigitRuns(text) :
          RunLength(text, i) = 7 /\ MatchAt(text, i, extracted)

(***************************************************************************)
(* C36: with maxAttempts 0 or negative a controller makes no fetch and no  *)
(* wait: its first step after the call is the exhaustion error, which      *)
(* reports that value of maxAttempts as the attempt count.                 *)
(***************************************************************************)
C36_NoAttempts ==
    /\ [](maxAttempts <= 0 =>
            /\ fetches = 0
            /\ waits = 0
            /\ pc # "wait"
            /\ result = NULL
            /\ pc = "done" =>
                  /\ NamesCount(error, maxAttempts)
                  /\ NamesTarget(error, fn, identifier)
                  /\ NamesChannel(error, fn))
    /\ [][(maxAttempts <= 0 /\ pc = "loop") => pc' = "done" /\ error' # <<>>]_vars

\* a call with maxAttempts = -1 ended in the exhaustion error
C36_Witness ==
    /\ maxAttempts = -1
    /\ Raised
    /\ attempt = 1
    /\ NamesCount(error, -1)

(***************************************************************************)
(* C37: whatever Math.random() gives, generateRandomPhone returns a string *)
(* of exactly 10 decimal digits whose first digit is between 1 and 9, and  *)
(* that string is what output.generatedPhone receives.                     *)
(***************************************************************************)
C37_TenDigitPhone ==
    /\ (entry = "generator" /\ pc = "done") =>
          /\ IsText(generated)
          /\ Len(generated) = 10
          /\ \A i \in 1..Len(generated) : IsDigit(generated[i])
          /\ generated[1] \in Digits \ {"0"}
          /\ output_generatedPhone = generated
    /\ (entry = "generator" /\ pc # "done") => output_generatedPhone = UNDEFINED

\* the greatest outcome was drawn first and the least one last: the script
\* wrote a phone number that starts with 9 and ends with 0
C37_Witness ==
    /\ entry = "generator"
    /\ pc = "done"
    /\ output_generatedPhone[1] = "9"
    /\ output_generatedPhone[10] = "0"
    /\ output_generatedPhone[2] = "4"

(***************************************************************************)
(* C38: the branch of strategy 2 for a match of length 6 is never taken.   *)
(* Whenever strategy 2 is tried, that is when strategy 1 matches nowhere   *)
(* in the text, a match of strategy 2 has length 5 or 7 wherever it is.    *)
(***************************************************************************)
C38_NoSixInStrategy2 ==
    (/\ Called
     /\ Truthy(text)
     /\ \A i \in 1..(Len(text) + 1) : ~Strategy1At(text, i))
        => \A i \in 1..(Len(text) + 1) : Strategy2Len(text, i) \in {0, 5, 7}

\* strategy 1 found nothing in a text with a 6-digit run that follows a
\* letter, and strategy 2 returned a 5-digit run
C38_Witness ==
    /\ Called
    /\ Truthy(text)
    /\ \A i \in 1..(Len(text) + 1) : ~Strategy1At(text, i)
    /\ \E i \in DigitRuns(text) : RunLength(text, i) = 6
    /\ \E i \in 1..Len(text) :
          Strategy2Len(text, i) = 5 /\ extracted = SubSeq(text, i, i + 4)

=============================================================================
